---- MODULE Spec2Model ----
(***************************************************************************)
(* Model of the generic slice library github.com/jkratz55/slices.          *)
(*                                                                         *)
(* Two families of behaviour are modelled:                                 *)
(*   - ForEachParallel: the caller goroutine, the producer goroutine and   *)
(*     the worker goroutines communicating over a buffered channel and a   *)
(*     sync.WaitGroup (specifications Spec and FairSpec);                  *)
(*   - the sequential operations on Go slices (Remove, Insert, Chunk,      *)
(*     Batch, Concat, Replace, ReplaceAll, Reverse, Shuffle, Zip, Unique,  *)
(*     PartitionBy, Contains, Count, CountBy, Index, FindFirst,            *)
(*     ReplaceIf, and second applications of the in-place ones), computed  *)
(*     over an explicit heap of backing arrays and slice headers (array,   *)
(*     offset, len, cap) (specification SliceSpec).                        *)
(***************************************************************************)
EXTENDS Integers, Sequences, FiniteSets, TLC

\* ------------------------------------------------------------------ bounds
MaxLen == 5          \* longest slice handed to ForEachParallel
MaxPar == 2          \* largest parallelism handed to ForEachParallel
MaxCap == 4          \* largest capacity of the caller's slice

\* element values; 0 is kept apart as the zero value of the element type
Vals == {1, 2}
\* parallelism arguments, valid and invalid
Pars == (0 - 1)..MaxPar

VARIABLES
  slice,        \* ForEachParallel: the slice argument (its elements)
  parallelism,  \* ForEachParallel: the parallelism argument
  pc,           \* caller goroutine: position in ForEachParallel
  i,            \* caller goroutine: loop counter of the worker spawn loop
  wg,           \* sync.WaitGroup counter
  chanSize,     \* capacity of queue
  queue,        \* buffered elements of the channel, each <<index, value>>
  closed,       \* whether close(queue) has run
  wpc,          \* per worker: "none", "range", "fn", "done"
  wv,           \* per worker: the <<index, value>> received last
  ppc,          \* producer goroutine: "none", "loop", "done"
  j,            \* producer goroutine: loop counter
  calls,        \* per index of slice: number of fn invocations started
  finished,     \* per index of slice: number of fn invocations returned
  total,        \* the shared counter fn adds to (atomic.AddUint64)
  heap0,        \* sequential operations: the backing arrays before the call
  heap,         \* sequential operations: the backing arrays now
  s,            \* sequential operations: the caller's slice header
  op,           \* sequential operations: the operation that has been called
  arg,          \* sequential operations: its arguments
  ret           \* sequential operations: what it returned

parVars == <<slice, parallelism, pc, i, wg, chanSize, queue, closed,
             wpc, wv, ppc, j, calls, finished, total>>

seqVars == <<heap0, heap, s, op, arg, ret>>

vars == <<parVars, seqVars>>

RECURSIVE SeqsUpTo(_, _)
SeqsUpTo(S, n) ==
  IF n = 0 THEN {<<>>}
  ELSE LET shorter == SeqsUpTo(S, n - 1)
       IN shorter \cup {Append(q, v) : q \in {t \in shorter : Len(t) = n - 1}, v \in S}

RECURSIVE SumSeq(_)
SumSeq(q) == IF q = <<>> THEN 0 ELSE Head(q) + SumSeq(Tail(q))

Workers == 1..(MaxPar + 1)

\* ------------------------------------------------------- ForEachParallel

InvalidParallelismMut(p) == p < 0
\* if parallelism < 1 { panic(...) }
InvalidParallelism(p) == p < 1

WgDeltaMut(p) == 1
\* wg.Add(parallelism)
WgDelta(p) == p

\* chanSize := parallelism * 4; if chanSize > len(slice) { chanSize = len(slice) }
ChanSizeMut(p, n) == p * 4

ChanSize(p, n) == IF p * 4 > n THEN n ELSE p * 4

SpawnMoreMut(k, p) == k <= p
\* for i := 0; i < parallelism; i++
SpawnMore(k, p) == k < p

ProducerMoreMut(k, n) == k < n - 1
\* for j := 0; j < len(slice); j++
ProducerMore(k, n) == k < n

\* for v := range queue: the loop ends when the channel is closed and drained
RangeEnds(q, c) == q = <<>> /\ c

ParInit ==
  /\ slice \in SeqsUpTo(Vals, MaxLen)
  /\ parallelism \in Pars
  /\ pc = "start"
  /\ i = 0
  /\ wg = 0
  /\ chanSize = 0
  /\ queue = <<>>
  /\ closed = FALSE
  /\ wpc = [w \in Workers |-> "none"]
  /\ wv = [w \in Workers |-> <<0, 0>>]
  /\ ppc = "none"
  /\ j = 0
  /\ calls = [k \in 1..Len(slice) |-> 0]
  /\ finished = [k \in 1..Len(slice) |-> 0]
  /\ total = 0

\* parallelism < 1: panic before anything is started
Panic ==
  /\ pc = "start"
  /\ InvalidParallelism(parallelism)
  /\ pc' = "panicked"
  /\ UNCHANGED <<slice, parallelism, i, wg, chanSize, queue, closed,
                 wpc, wv, ppc, j, calls, finished, total>>
  /\ UNCHANGED seqVars

\* wg.Add(parallelism); chanSize := ...; queue := make(chan T, chanSize)
Setup ==
  /\ pc = "start"
  /\ ~InvalidParallelism(parallelism)
  /\ wg' = wg + WgDelta(parallelism)
  /\ chanSize' = ChanSize(parallelism, Len(slice))
  /\ queue' = <<>>
  /\ i' = 0
  /\ pc' = "spawn"
  /\ UNCHANGED <<slice, parallelism, closed, wpc, wv, ppc, j, calls,
                 finished, total>>
  /\ UNCHANGED seqVars

\* one iteration of the spawn loop: go func() { defer wg.Done(); for v := range queue {...} }()
SpawnWorker ==
  /\ pc = "spawn"
  /\ SpawnMore(i, parallelism)
  /\ wpc' = [wpc EXCEPT ![i + 1] = "range"]
  /\ i' = i + 1
  /\ UNCHANGED <<slice, parallelism, pc, wg, chanSize, queue, closed, wv,
                 ppc, j, calls, finished, total>>
  /\ UNCHANGED seqVars

\* the spawn loop is over: go func() { for j ... ; close(queue) }()
SpawnProducer ==
  /\ pc = "spawn"
  /\ ~SpawnMore(i, parallelism)
  /\ ppc' = "loop"
  /\ j' = 0
  /\ pc' = "wait"
  /\ UNCHANGED <<slice, parallelism, i, wg, chanSize, queue, closed, wpc,
                 wv, calls, finished, total>>
  /\ UNCHANGED seqVars

SendMut ==
  /\ ppc = "loop"
  /\ ProducerMore(j, Len(slice))
  /\ Len(queue) < chanSize
  /\ queue' = Append(queue, <<Len(slice) - 1 - j, slice[Len(slice) - j]>>)
  /\ j' = j + 1
  /\ UNCHANGED <<slice, parallelism, pc, i, wg, chanSize, closed, wpc, wv,
                 ppc, calls, finished, total>>
  /\ UNCHANGED seqVars

\* queue <- slice[j]: blocks while the buffer is full.  The capacity is 0
\* only when len(slice) = 0, in which case the loop body never runs.
Send ==
  /\ ppc = "loop"
  /\ ProducerMore(j, Len(slice))
  /\ Len(queue) < chanSize
  /\ queue' = Append(queue, <<j, slice[j + 1]>>)
  /\ j' = j + 1
  /\ UNCHANGED <<slice, parallelism, pc, i, wg, chanSize, closed, wpc, wv,
                 ppc, calls, finished, total>>
  /\ UNCHANGED seqVars

CloseMut ==
  /\ ppc = "loop"
  /\ ~ProducerMore(j, Len(slice))
  /\ ppc' = "done"
  /\ UNCHANGED <<slice, parallelism, pc, i, wg, chanSize, queue, closed,
                 wpc, wv, j, calls, finished, total>>
  /\ UNCHANGED seqVars

\* close(queue) after the loop
Close ==
  /\ ppc = "loop"
  /\ ~ProducerMore(j, Len(slice))
  /\ closed' = TRUE
  /\ ppc' = "done"
  /\ UNCHANGED <<slice, parallelism, pc, i, wg, chanSize, queue, wpc, wv,
                 j, calls, finished, total>>
  /\ UNCHANGED seqVars

\* v := <-queue (one iteration of range), then fn(v) starts
Recv(w) ==
  /\ wpc[w] = "range"
  /\ queue # <<>>
  /\ wv' = [wv EXCEPT ![w] = Head(queue)]
  /\ queue' = Tail(queue)
  /\ calls' = [calls EXCEPT ![Head(queue)[1] + 1] = @ + 1]
  /\ wpc' = [wpc EXCEPT ![w] = "fn"]
  /\ UNCHANGED <<slice, parallelism, pc, i, wg, chanSize, closed, ppc, j,
                 finished, total>>
  /\ UNCHANGED seqVars

\* fn(v) runs atomic.AddUint64(&total, uint64(v)) and returns
FnReturn(w) ==
  /\ wpc[w] = "fn"
  /\ total' = total + wv[w][2]
  /\ finished' = [finished EXCEPT ![wv[w][1] + 1] = @ + 1]
  /\ wpc' = [wpc EXCEPT ![w] = "range"]
  /\ UNCHANGED <<slice, parallelism, pc, i, wg, chanSize, queue, closed, wv,
                 ppc, j, calls>>
  /\ UNCHANGED seqVars

\* range sees the channel closed and empty; the deferred wg.Done() runs
WorkerExit(w) ==
  /\ wpc[w] = "range"
  /\ RangeEnds(queue, closed)
  /\ wg' = wg - 1
  /\ wpc' = [wpc EXCEPT ![w] = "done"]
  /\ UNCHANGED <<slice, parallelism, pc, i, chanSize, queue, closed, wv,
                 ppc, j, calls, finished, total>>
  /\ UNCHANGED seqVars

\* wg.Wait() returns once the counter is zero
Wait ==
  /\ pc = "wait"
  /\ wg = 0
  /\ pc' = "returned"
  /\ UNCHANGED <<slice, parallelism, i, wg, chanSize, queue, closed, wpc,
                 wv, ppc, j, calls, finished, total>>
  /\ UNCHANGED seqVars

Next ==
  \/ Panic
  \/ Setup
  \/ SpawnWorker
  \/ SpawnProducer
  \/ Send
  \/ Close
  \/ \E w \in Workers : Recv(w)
  \/ \E w \in Workers : FnReturn(w)
  \/ \E w \in Workers : WorkerExit(w)
  \/ Wait

\* ------------------------------------------------- Go slices and arrays

\* the zero value of the element type
Zero == 0

Min(a, b) == IF a < b THEN a ELSE b

\* A slice header: backing array (0 for none), offset into it, len, cap.
Header(a, o, l, c) == [arr |-> a, off |-> o, len |-> l, cap |-> c]

\* a nil slice
NilSlice == Header(0, 0, 0, 0)

\* the elements seen through a slice
Elems(h, sl) == [k \in 1..sl.len |-> h[sl.arr][sl.off + k]]

\* sl[k], 0 <= k < len(sl)
At(h, sl, k) == h[sl.arr][sl.off + k + 1]

\* the bounds check of the slice expression sl[lo:hi] on a slice
SliceOK(sl, lo, hi) == 0 <= lo /\ lo <= hi /\ hi <= sl.cap

\* the slice expression sl[lo:hi]
SliceExpr(sl, lo, hi) == Header(sl.arr, sl.off + lo, hi - lo, sl.cap - lo)

\* make([]T, n): a fresh zeroed array is added to the heap
MakeHeap(h, n) == Append(h, [k \in 1..n |-> Zero])
MakeSlice(h, n) == Header(Len(h) + 1, 0, n, n)

\* copy(dst, vals): writes min(len(dst), len(vals)) elements
CopyVals(h, dst, vals) ==
  LET n == Min(dst.len, Len(vals))
  IN IF n = 0 THEN h
     ELSE [h EXCEPT ![dst.arr] =
             [k \in 1..Len(@) |->
                IF k > dst.off /\ k <= dst.off + n THEN vals[k - dst.off]
                ELSE @[k]]]

\* copy(dst, src) between slices, which may overlap (memmove)
Copy(h, dst, src) == CopyVals(h, dst, Elems(h, src))

\* append(sl, vals...): in place when the capacity suffices, otherwise into
\* a fresh array of at least the needed capacity
AppendHeap(h, sl, vals) ==
  IF sl.len + Len(vals) <= sl.cap
  THEN CopyVals(h, SliceExpr(sl, sl.len, sl.len + Len(vals)), vals)
  ELSE Append(h, Elems(h, sl) \o vals)
AppendSlice(h, sl, vals) ==
  IF sl.len + Len(vals) <= sl.cap
  THEN Header(sl.arr, sl.off, sl.len + Len(vals), sl.cap)
  ELSE Header(Len(h) + 1, 0, sl.len + Len(vals), sl.len + Len(vals))

\* what a call leaves behind: whether it panicked, the heap, the returned
\* slice, the returned count and the returned slice of slices; val and ok
\* hold a returned element and a returned boolean; once holds the sequence
\* an earlier call of the same operation produced
Result(p, h, o, n, c) ==
  [panic |-> p, heap |-> h, out |-> o, n |-> n, chunks |-> c,
   val |-> Zero, ok |-> FALSE, once |-> <<>>]
Panicked(h) == Result(TRUE, h, NilSlice, 0, <<>>)

\* ---------------------------------------------------------------- Remove

AfterRemovalMut(k) == k + 1
\* i-- in the body followed by the loop's i++: index i is processed again
AfterRemoval(k) == k

RECURSIVE RemoveLoop(_, _, _, _, _)
RemoveLoop(h, sl, item, k, removed) ==
  IF ~(k < sl.len) THEN Result(FALSE, h, sl, removed, <<>>)
  ELSE IF At(h, sl, k) = item
       THEN LET head == SliceExpr(sl, 0, k)
                tail == Elems(h, SliceExpr(sl, k + 1, sl.len))
            IN RemoveLoop(AppendHeap(h, head, tail), AppendSlice(h, head, tail),
                          item, AfterRemoval(k), removed + 1)
       ELSE RemoveLoop(h, sl, item, k + 1, removed)

RemoveMut(h, sl, item) ==
  RemoveLoop(Append(h, Elems(h, sl)), Header(Len(h) + 1, 0, sl.len, sl.len),
             item, 0, 0)

Remove(h, sl, item) == RemoveLoop(h, sl, item, 0, 0)

\* ---------------------------------------------------------------- Insert

InsertInPlaceMut(h, sl, idx, item) ==
  LET tot == sl.len + 1
      s2 == SliceExpr(sl, 0, tot)
  IN IF ~SliceOK(s2, idx + 1, s2.len) \/ ~SliceOK(sl, idx, sl.len)
     THEN Panicked(h)
     ELSE LET h1 == CopyVals(h, SliceExpr(s2, idx, s2.len), <<item>>)
              h2 == Copy(h1, SliceExpr(s2, idx + 1, s2.len), SliceExpr(sl, idx, sl.len))
          IN Result(FALSE, h2, s2, 0, <<>>)

InsertInPlaceEagerMut(h, sl, idx, item) ==
  LET tot == sl.len + 1
      s2 == SliceExpr(sl, 0, tot)
      h0 == CopyVals(h, SliceExpr(s2, sl.len, s2.len), <<item>>)
  IN IF ~SliceOK(s2, idx + 1, s2.len) \/ ~SliceOK(sl, idx, sl.len)
     THEN Panicked(h0)
     ELSE LET h1 == Copy(h, SliceExpr(s2, idx + 1, s2.len), SliceExpr(sl, idx, sl.len))
              h2 == CopyVals(h1, SliceExpr(s2, idx, s2.len), <<item>>)
          IN Result(FALSE, h2, s2, 0, <<>>)

\* tot <= cap(slice): s2 := slice[:tot]; copy(s2[idx+1:], slice[idx:]);
\* copy(s2[idx:], []T{item}); return s2
InsertInPlace(h, sl, idx, item) ==
  LET tot == sl.len + 1
      s2 == SliceExpr(sl, 0, tot)
  IN IF ~SliceOK(s2, idx + 1, s2.len) \/ ~SliceOK(sl, idx, sl.len)
     THEN Panicked(h)
     ELSE LET h1 == Copy(h, SliceExpr(s2, idx + 1, s2.len), SliceExpr(sl, idx, sl.len))
              h2 == CopyVals(h1, SliceExpr(s2, idx, s2.len), <<item>>)
          IN Result(FALSE, h2, s2, 0, <<>>)

InsertReallocMut(h, sl, idx, item) ==
  LET tot == sl.len + 1
      h0 == MakeHeap(h, tot)
      s2 == MakeSlice(h, tot)
  IN IF ~SliceOK(sl, 0, idx) THEN Panicked(h0)
     ELSE LET h1 == Copy(h0, SliceExpr(sl, 0, idx), SliceExpr(s2, 0, idx))
          IN IF ~SliceOK(s2, idx, s2.len) THEN Panicked(h1)
             ELSE LET h2 == CopyVals(h1, SliceExpr(s2, idx, s2.len), <<item>>)
                  IN IF ~SliceOK(s2, idx + 1, s2.len) \/ ~SliceOK(sl, idx, sl.len)
                     THEN Panicked(h2)
                     ELSE Result(FALSE,
                                 Copy(h2, SliceExpr(s2, idx + 1, s2.len),
                                      SliceExpr(sl, idx, sl.len)),
                                 s2, 0, <<>>)

\* s2 := make([]T, tot); copy(s2, slice[:idx]); copy(s2[idx:], []T{item});
\* copy(s2[idx+1:], slice[idx:]); return s2
InsertRealloc(h, sl, idx, item) ==
  LET tot == sl.len + 1
      h0 == MakeHeap(h, tot)
      s2 == MakeSlice(h, tot)
  IN IF ~SliceOK(sl, 0, idx) THEN Panicked(h0)
     ELSE LET h1 == Copy(h0, s2, SliceExpr(sl, 0, idx))
          IN IF ~SliceOK(s2, idx, s2.len) THEN Panicked(h1)
             ELSE LET h2 == CopyVals(h1, SliceExpr(s2, idx, s2.len), <<item>>)
                  IN IF ~SliceOK(s2, idx + 1, s2.len) \/ ~SliceOK(sl, idx, sl.len)
                     THEN Panicked(h2)
                     ELSE Result(FALSE,
                                 Copy(h2, SliceExpr(s2, idx + 1, s2.len),
                                      SliceExpr(sl, idx, sl.len)),
                                 s2, 0, <<>>)

InsertAllocMut(h, sl, idx, item) ==
  IF sl.len + 1 < sl.cap THEN InsertInPlace(h, sl, idx, item)
  ELSE InsertRealloc(h, sl, idx, item)

InsertMut(h, sl, idx, item) ==
  LET at == IF idx > sl.len THEN sl.len ELSE IF idx < 0 THEN 0 ELSE idx
  IN IF sl.len + 1 <= sl.cap THEN InsertInPlace(h, sl, at, item)
     ELSE InsertRealloc(h, sl, at, item)

\* tot := len(slice) + 1; if tot <= cap(slice) {...} else {...}
Insert(h, sl, idx, item) ==
  IF sl.len + 1 <= sl.cap THEN InsertInPlace(h, sl, idx, item)
  ELSE InsertRealloc(h, sl, idx, item)

\* ------------------------------------------------------- Chunk and Concat

InvalidSizeMut(size) == size < 0
\* if size < 1 { panic(...) }
InvalidSize(size) == size < 1

ChunkEndMut(k, size, n) == k + size
\* end := i + size; if end > len(slice) { end = len(slice) }
ChunkEnd(k, size, n) == IF k + size > n THEN n ELSE k + size

ChunkStepMut(k, size) == k + 1
\* i += size
ChunkStep(k, size) == k + size

RECURSIVE ChunkLoop(_, _, _, _, _)
ChunkLoop(h, sl, size, k, chunks) ==
  IF ~(k < sl.len) THEN Result(FALSE, h, NilSlice, 0, chunks)
  ELSE LET end == ChunkEnd(k, size, sl.len)
       IN IF ~SliceOK(sl, k, end) THEN Panicked(h)
          ELSE ChunkLoop(h, sl, size, ChunkStep(k, size),
                         Append(chunks, SliceExpr(sl, k, end)))

ChunkMut(h, sl, size) ==
  IF sl.len = 0 THEN Result(FALSE, h, NilSlice, 0, <<>>)
  ELSE IF InvalidSize(size) THEN Panicked(h)
  ELSE ChunkLoop(h, sl, size, 0, <<>>)

Chunk(h, sl, size) ==
  IF InvalidSize(size) THEN Panicked(h)
  ELSE ChunkLoop(h, sl, size, 0, <<>>)

\* return Chunk(slice, batchSize)
Batch(h, sl, batchSize) == Chunk(h, sl, batchSize)

\* size := 0; for _, s := range slices { size += len(s) }
RECURSIVE TotalLen(_)
TotalLen(slices) ==
  IF slices = <<>> THEN 0 ELSE Head(slices).len + TotalLen(Tail(slices))

\* for j := 0; j < len(s); j, i = j+1, i+1 { newSlice[i] = s[j] }
RECURSIVE ConcatInner(_, _, _, _, _)
ConcatInner(h, new, sl, jj, k) ==
  IF ~(jj < sl.len) THEN h
  ELSE ConcatInner([h EXCEPT ![new.arr][new.off + k + 1] = At(h, sl, jj)],
                   new, sl, jj + 1, k + 1)

\* for _, s := range slices {...}
RECURSIVE ConcatOuter(_, _, _, _)
ConcatOuter(h, new, slices, k) ==
  IF slices = <<>> THEN h
  ELSE ConcatOuter(ConcatInner(h, new, Head(slices), 0, k), new,
                   Tail(slices), k + Head(slices).len)

Concat(h, slices) ==
  LET size == TotalLen(slices)
  IN Result(FALSE, ConcatOuter(MakeHeap(h, size), MakeSlice(h, size), slices, 0),
            MakeSlice(h, size), 0, slices)

\* ------------------------------------------- Replace, ReplaceAll

\* sl[k] = v
SetAt(h, sl, k, v) == [h EXCEPT ![sl.arr][sl.off + k + 1] = v]

ReplaceMoreMut(n) == n > 0
\* ... && n != 0
ReplaceMore(n) == n # 0

\* for i := range in { if in[i] == old && n != 0 { in[i] = new; n-- } }
RECURSIVE ReplaceLoop(_, _, _, _, _, _)
ReplaceLoop(h, in, old, new, n, k) ==
  IF ~(k < in.len) THEN h
  ELSE IF At(h, in, k) = old /\ ReplaceMore(n)
       THEN ReplaceLoop(SetAt(h, in, k, new), in, old, new, n - 1, k + 1)
       ELSE ReplaceLoop(h, in, old, new, n, k + 1)

Replace(h, in, old, new, n) ==
  Result(FALSE, ReplaceLoop(h, in, old, new, n, 0), NilSlice, 0, <<>>)

\* Replace(in, old, new, -1)
ReplaceAll(h, in, old, new) == Replace(h, in, old, new, 0 - 1)

\* for i := range in { if pred(in[i]) { in[i] = newVal } }
RECURSIVE ReplaceIfLoop(_, _, _, _, _)
ReplaceIfLoop(h, in, newVal, pred, k) ==
  IF ~(k < in.len) THEN h
  ELSE ReplaceIfLoop(IF At(h, in, k) \in pred THEN SetAt(h, in, k, newVal) ELSE h,
                     in, newVal, pred, k + 1)

ReplaceIf(h, in, newVal, pred) ==
  Result(FALSE, ReplaceIfLoop(h, in, newVal, pred, 0), NilSlice, 0, <<>>)

\* ------------------------------------------------- Reverse, Shuffle

SwapMut(h, sl, a, b) ==
  SetAt(SetAt(h, sl, a, At(h, sl, b)), sl, b, At(h, sl, b))
\* s[i], s[j] = s[j], s[i]
Swap(h, sl, a, b) ==
  SetAt(SetAt(h, sl, a, At(h, sl, b)), sl, b, At(h, sl, a))

ReverseMoreMut(a, b, n) == a < n
\* the loop condition i < j
ReverseMore(a, b, n) == a < b

\* for i, j := 0, len(s)-1; i < j; i, j = i+1, j-1 { swap }
RECURSIVE ReverseLoop(_, _, _, _)
ReverseLoop(h, sl, a, b) ==
  IF ~ReverseMore(a, b, sl.len) THEN h
  ELSE ReverseLoop(Swap(h, sl, a, b), sl, a + 1, b - 1)

Reverse(h, sl) ==
  Result(FALSE, ReverseLoop(h, sl, 0, sl.len - 1), NilSlice, 0, <<>>)

\* the random choices rand.Shuffle(n, swap) can make: for i from n-1 down
\* to 1 an index j with 0 <= j <= i
ShuffleChoices(n) ==
  {ch \in [1..(n - 1) -> 0..(n - 1)] : \A k \in 1..(n - 1) : ch[k] <= k}

\* random.Shuffle(len(s), func(i, j int) { s[i], s[j] = s[j], s[i] })
RECURSIVE ShuffleLoop(_, _, _, _)
ShuffleLoop(h, sl, k, ch) ==
  IF ~(k > 0) THEN h
  ELSE ShuffleLoop(Swap(h, sl, k, ch[k]), sl, k - 1, ch)

Shuffle(h, sl, ch) ==
  Result(FALSE, ShuffleLoop(h, sl, sl.len - 1, ch), NilSlice, 0, <<>>)

\* ------------------------------------------------------------------- Zip

\* Pair[T, U]{First: a, Second: b}
Pair(a, b) == [First |-> a, Second |-> b]

\* make([]T, 0, n): a fresh array of capacity n, and a slice of length 0 on it
MakeCapHeap(h, n, zero) == Append(h, [k \in 1..n |-> zero])
MakeCapSlice(h, n) == Header(Len(h) + 1, 0, 0, n)

ZipMismatchMut(l, r) == l > r
\* if len(left) != len(right) { panic(...) }
ZipMismatch(l, r) == l # r

\* for idx, item := range left { pairs = append(pairs, Pair{item, right[idx]}) }
RECURSIVE ZipLoop(_, _, _, _, _)
ZipLoop(h, left, right, k, pairs) ==
  IF ~(k < left.len) THEN Result(FALSE, h, pairs, 0, <<>>)
  ELSE LET pr == <<Pair(At(h, left, k), At(h, right, k))>>
       IN ZipLoop(AppendHeap(h, pairs, pr), left, right, k + 1,
                  AppendSlice(h, pairs, pr))

Zip(h, left, right) ==
  IF ZipMismatch(left.len, right.len) THEN Panicked(h)
  ELSE ZipLoop(MakeCapHeap(h, left.len, Pair(Zero, Zero)), left, right, 0,
               MakeCapSlice(h, left.len))

\* ---------------------------------------------------------------- Unique

UniqueSeenMut(seen, item) == {item}
\* seen[item] = struct{}{}
UniqueSeen(seen, item) == seen \cup {item}

\* for i := 0; i < len(in); i++ { if seen: continue; record; append }
RECURSIVE UniqueLoop(_, _, _, _, _)
UniqueLoop(h, in, k, result, seen) ==
  IF ~(k < in.len) THEN Result(FALSE, h, result, 0, <<>>)
  ELSE LET item == At(h, in, k)
       IN IF item \in seen THEN UniqueLoop(h, in, k + 1, result, seen)
          ELSE UniqueLoop(AppendHeap(h, result, <<item>>), in, k + 1,
                          AppendSlice(h, result, <<item>>),
                          UniqueSeen(seen, item))

UniqueMut(h, in) ==
  UniqueLoop(MakeCapHeap(h, in.len, Zero), in, 1, MakeCapSlice(h, in.len), {})

\* result := make([]T, 0, len(in)); seen := make(map[T]struct{}, len(in))
Unique(h, in) ==
  UniqueLoop(MakeCapHeap(h, in.len, Zero), in, 0, MakeCapSlice(h, in.len), {})

\* ----------------------------------------------------------- PartitionBy

PartitionRecordMut(seen, key, idx) == seen
\* seen[key] = idx
PartitionRecord(seen, key, idx) == (key :> idx) @@ seen

\* for _, item := range in {...}; seen maps the keys met so far to the
\* position of their group in result
RECURSIVE PartitionLoop(_, _, _, _, _, _)
PartitionLoop(h, in, f, k, result, seen) ==
  IF ~(k < in.len) THEN Result(FALSE, h, NilSlice, 0, result)
  ELSE LET item == At(h, in, k)
           key == f[item]
           ok == key \in DOMAIN seen
           idx == IF ok THEN seen[key] ELSE Len(result)
           seen1 == IF ok THEN seen ELSE PartitionRecord(seen, key, idx)
           h1 == IF ok THEN h ELSE MakeCapHeap(h, 0, Zero)
           result1 == IF ok THEN result ELSE Append(result, MakeCapSlice(h, 0))
           group == result1[idx + 1]
       IN PartitionLoop(AppendHeap(h1, group, <<item>>), in, f, k + 1,
                        [result1 EXCEPT ![idx + 1] = AppendSlice(h1, group, <<item>>)],
                        seen1)

PartitionBy(h, in, f) == PartitionLoop(h, in, f, 0, <<>>, <<>>)

\* ------------------- Contains, Count, CountBy, Index, FindFirst

\* a call that returns an element, a boolean or a number and writes nothing
Found(h, v, ok, n) ==
  [Result(FALSE, h, NilSlice, n, <<>>) EXCEPT !.val = v, !.ok = ok]

RECURSIVE ContainsLoop(_, _, _, _)
ContainsLoop(h, sl, item, k) ==
  IF ~(k < sl.len) THEN FALSE
  ELSE IF At(h, sl, k) = item THEN TRUE
  ELSE ContainsLoop(h, sl, item, k + 1)

Contains(h, sl, item) == Found(h, Zero, ContainsLoop(h, sl, item, 0), 0)

RECURSIVE CountLoop(_, _, _, _, _)
CountLoop(h, sl, item, k, count) ==
  IF ~(k < sl.len) THEN count
  ELSE CountLoop(h, sl, item, k + 1,
                 IF At(h, sl, k) = item THEN count + 1 ELSE count)

Count(h, sl, item) == Found(h, Zero, FALSE, CountLoop(h, sl, item, 0, 0))

\* a predicate is modelled by the set of values it accepts
RECURSIVE CountByLoop(_, _, _, _, _)
CountByLoop(h, in, pred, k, count) ==
  IF ~(k < in.len) THEN count
  ELSE CountByLoop(h, in, pred, k + 1,
                   IF At(h, in, k) \in pred THEN count + 1 ELSE count)

CountBy(h, in, pred) == Found(h, Zero, FALSE, CountByLoop(h, in, pred, 0, 0))

RECURSIVE IndexLoop(_, _, _, _)
IndexLoop(h, sl, item, k) ==
  IF ~(k < sl.len) THEN 0 - 1
  ELSE IF At(h, sl, k) = item THEN k
  ELSE IndexLoop(h, sl, item, k + 1)

IndexMut(h, sl, item) ==
  LET r == IndexLoop(h, sl, item, 0)
  IN Found(h, Zero, FALSE, IF r < 0 THEN sl.len ELSE r)

Index(h, sl, item) == Found(h, Zero, FALSE, IndexLoop(h, sl, item, 0))

\* return slice[i], true on the first match; return res, false otherwise,
\* res being the zero value
RECURSIVE FindFirstLoop(_, _, _, _)
FindFirstLoop(h, sl, pred, k) ==
  IF ~(k < sl.len) THEN Found(h, Zero, FALSE, 0)
  ELSE IF At(h, sl, k) \in pred THEN Found(h, At(h, sl, k), TRUE, 0)
  ELSE FindFirstLoop(h, sl, pred, k + 1)

FindFirst(h, sl, pred) == FindFirstLoop(h, sl, pred, 0)

\* ------------------------------------------- calls of the operations

NoArg == [item |-> 0, idx |-> 0, size |-> 0, new |-> 0, n |-> 0,
          pred |-> {}, f |-> <<>>, choices |-> <<>>, right |-> NilSlice]
NoRet == Result(FALSE, <<>>, NilSlice, 0, <<>>)

\* the caller's slice: nil, or the first len elements of an array of
\* capacity cap <= MaxCap whose cells all hold values
SeqInit ==
  /\ \/ heap0 = <<>> /\ s = NilSlice
     \/ \E c \in 0..MaxCap :
          /\ heap0 \in {<<a>> : a \in [1..c -> Vals]}
          /\ s \in {Header(1, 0, l, c) : l \in 0..c}
  /\ heap = heap0
  /\ op = "none"
  /\ arg = NoArg
  /\ ret = NoRet

SeqIdle ==
  /\ heap0 = <<>>
  /\ heap = <<>>
  /\ s = NilSlice
  /\ op = "idle"
  /\ arg = NoArg
  /\ ret = NoRet

ParIdle ==
  /\ slice = <<>>
  /\ parallelism = 0
  /\ pc = "idle"
  /\ i = 0
  /\ wg = 0
  /\ chanSize = 0
  /\ queue = <<>>
  /\ closed = FALSE
  /\ wpc = [w \in Workers |-> "none"]
  /\ wv = [w \in Workers |-> <<0, 0>>]
  /\ ppc = "none"
  /\ j = 0
  /\ calls = <<>>
  /\ finished = <<>>
  /\ total = 0

\* index arguments, in and out of range
Idxs == (0 - 2)..(MaxCap + 2)
\* size arguments, valid and invalid
Sizes == (0 - 1)..(MaxCap + 1)

\* r, n := Remove(s, x)
DoRemove ==
  /\ op = "none"
  /\ \E x \in Vals :
       /\ arg' = [NoArg EXCEPT !.item = x]
       /\ ret' = Remove(heap, s, x)
  /\ heap' = ret'.heap
  /\ op' = "Remove"
  /\ UNCHANGED <<heap0, s>>
  /\ UNCHANGED parVars

\* r := Insert(s, idx, x)
DoInsert ==
  /\ op = "none"
  /\ \E idx \in Idxs, x \in Vals :
       /\ arg' = [NoArg EXCEPT !.item = x, !.idx = idx]
       /\ ret' = Insert(heap, s, idx, x)
  /\ heap' = ret'.heap
  /\ op' = "Insert"
  /\ UNCHANGED <<heap0, s>>
  /\ UNCHANGED parVars

\* chunks := Chunk(s, size)
DoChunk ==
  /\ op = "none"
  /\ \E size \in Sizes :
       /\ arg' = [NoArg EXCEPT !.size = size]
       /\ ret' = Chunk(heap, s, size)
  /\ heap' = ret'.heap
  /\ op' = "Chunk"
  /\ UNCHANGED <<heap0, s>>
  /\ UNCHANGED parVars

\* batches := Batch(s, size)
DoBatch ==
  /\ op = "none"
  /\ \E size \in Sizes :
       /\ arg' = [NoArg EXCEPT !.size = size]
       /\ ret' = Batch(heap, s, size)
  /\ heap' = ret'.heap
  /\ op' = "Batch"
  /\ UNCHANGED <<heap0, s>>
  /\ UNCHANGED parVars

\* r := Concat(chunks...) on the chunks Chunk returned
DoConcat ==
  /\ op = "Chunk"
  /\ ~ret.panic
  /\ ret' = Concat(heap, ret.chunks)
  /\ heap' = ret'.heap
  /\ op' = "Concat"
  /\ UNCHANGED <<heap0, s, arg>>
  /\ UNCHANGED parVars

\* count arguments: unlimited (-1), none, some, more than there are
Counts == (0 - 1)..(MaxCap + 1)

\* Replace(s, old, new, n)
DoReplace ==
  /\ op = "none"
  /\ \E old \in Vals, new \in Vals, n \in Counts :
       /\ arg' = [NoArg EXCEPT !.item = old, !.new = new, !.n = n]
       /\ ret' = Replace(heap, s, old, new, n)
  /\ heap' = ret'.heap
  /\ op' = "Replace"
  /\ UNCHANGED <<heap0, s>>
  /\ UNCHANGED parVars

\* ReplaceAll(s, old, new)
DoReplaceAll ==
  /\ op = "none"
  /\ \E old \in Vals, new \in Vals :
       /\ arg' = [NoArg EXCEPT !.item = old, !.new = new]
       /\ ret' = ReplaceAll(heap, s, old, new)
  /\ heap' = ret'.heap
  /\ op' = "ReplaceAll"
  /\ UNCHANGED <<heap0, s>>
  /\ UNCHANGED parVars

\* Reverse(s)
DoReverse ==
  /\ op = "none"
  /\ arg' = NoArg
  /\ ret' = Reverse(heap, s)
  /\ heap' = ret'.heap
  /\ op' = "Reverse"
  /\ UNCHANGED <<heap0, s>>
  /\ UNCHANGED parVars

\* Shuffle(s), for every outcome of the random generator
DoShuffle ==
  /\ op = "none"
  /\ \E ch \in ShuffleChoices(s.len) :
       /\ arg' = [NoArg EXCEPT !.choices = ch]
       /\ ret' = Shuffle(heap, s, ch)
  /\ heap' = ret'.heap
  /\ op' = "Shuffle"
  /\ UNCHANGED <<heap0, s>>
  /\ UNCHANGED parVars

\* partition keys
Keys == {"k1", "k2"}

\* pairs := Zip(s, right), for a right slice the caller has made
DoZip ==
  /\ op = "none"
  /\ \E r \in SeqsUpTo(Vals, MaxCap) :
       LET right == Header(Len(heap) + 1, 0, Len(r), Len(r))
           h1 == Append(heap, r)
       IN /\ heap0' = h1
          /\ arg' = [NoArg EXCEPT !.right = right]
          /\ ret' = Zip(h1, s, right)
  /\ heap' = ret'.heap
  /\ op' = "Zip"
  /\ UNCHANGED s
  /\ UNCHANGED parVars

\* u := Unique(s)
DoUnique ==
  /\ op = "none"
  /\ arg' = NoArg
  /\ ret' = Unique(heap, s)
  /\ heap' = ret'.heap
  /\ op' = "Unique"
  /\ UNCHANGED <<heap0, s>>
  /\ UNCHANGED parVars

\* uu := Unique(u) on the slice Unique returned; chunks keeps u
DoUniqueAgain ==
  /\ op = "Unique"
  /\ ret' = [Unique(heap, ret.out) EXCEPT !.chunks = <<ret.out>>]
  /\ heap' = ret'.heap
  /\ op' = "UniqueAgain"
  /\ UNCHANGED <<heap0, s, arg>>
  /\ UNCHANGED parVars

\* groups := PartitionBy(s, f)
DoPartitionBy ==
  /\ op = "none"
  /\ \E f \in [Vals -> Keys] :
       /\ arg' = [NoArg EXCEPT !.f = f]
       /\ ret' = PartitionBy(heap, s, f)
  /\ heap' = ret'.heap
  /\ op' = "PartitionBy"
  /\ UNCHANGED <<heap0, s>>
  /\ UNCHANGED parVars

\* ok := Contains(s, x)
DoContains ==
  /\ op = "none"
  /\ \E x \in Vals :
       /\ arg' = [NoArg EXCEPT !.item = x]
       /\ ret' = Contains(heap, s, x)
  /\ heap' = ret'.heap
  /\ op' = "Contains"
  /\ UNCHANGED <<heap0, s>>
  /\ UNCHANGED parVars

\* n := Count(s, x)
DoCount ==
  /\ op = "none"
  /\ \E x \in Vals :
       /\ arg' = [NoArg EXCEPT !.item = x]
       /\ ret' = Count(heap, s, x)
  /\ heap' = ret'.heap
  /\ op' = "Count"
  /\ UNCHANGED <<heap0, s>>
  /\ UNCHANGED parVars

\* n := CountBy(s, pred)
DoCountBy ==
  /\ op = "none"
  /\ \E pred \in SUBSET Vals :
       /\ arg' = [NoArg EXCEPT !.pred = pred]
       /\ ret' = CountBy(heap, s, pred)
  /\ heap' = ret'.heap
  /\ op' = "CountBy"
  /\ UNCHANGED <<heap0, s>>
  /\ UNCHANGED parVars

\* n := Index(s, x)
DoIndex ==
  /\ op = "none"
  /\ \E x \in Vals :
       /\ arg' = [NoArg EXCEPT !.item = x]
       /\ ret' = Index(heap, s, x)
  /\ heap' = ret'.heap
  /\ op' = "Index"
  /\ UNCHANGED <<heap0, s>>
  /\ UNCHANGED parVars

\* v, ok := FindFirst(s, pred)
DoFindFirst ==
  /\ op = "none"
  /\ \E pred \in SUBSET Vals :
       /\ arg' = [NoArg EXCEPT !.pred = pred]
       /\ ret' = FindFirst(heap, s, pred)
  /\ heap' = ret'.heap
  /\ op' = "FindFirst"
  /\ UNCHANGED <<heap0, s>>
  /\ UNCHANGED parVars

\* ReplaceIf(s, newVal, pred)
DoReplaceIf ==
  /\ op = "none"
  /\ \E newVal \in Vals, pred \in SUBSET Vals :
       /\ arg' = [NoArg EXCEPT !.new = newVal, !.pred = pred]
       /\ ret' = ReplaceIf(heap, s, newVal, pred)
  /\ heap' = ret'.heap
  /\ op' = "ReplaceIf"
  /\ UNCHANGED <<heap0, s>>
  /\ UNCHANGED parVars

\* the in-place operations, and the name of their second application
AgainName ==
  [Remove |-> "RemoveAgain", Insert |-> "InsertAgain",
   Replace |-> "ReplaceAgain", ReplaceAll |-> "ReplaceAllAgain",
   ReplaceIf |-> "ReplaceIfAgain", Reverse |-> "ReverseAgain"]

\* the same operation with the same arguments, applied to the sequence the
\* first application produced: the returned slice for Remove and Insert, the
\* caller's slice for the others; once keeps what the first one produced
DoAgain ==
  /\ op \in DOMAIN AgainName
  /\ ~ret.panic
  /\ LET target == IF op \in {"Remove", "Insert"} THEN ret.out ELSE s
         r == CASE op = "Remove" -> Remove(heap, target, arg.item)
                [] op = "Insert" -> Insert(heap, target, arg.idx, arg.item)
                [] op = "Replace" -> Replace(heap, target, arg.item, arg.new, arg.n)
                [] op = "ReplaceAll" -> ReplaceAll(heap, target, arg.item, arg.new)
                [] op = "ReplaceIf" -> ReplaceIf(heap, target, arg.new, arg.pred)
                [] op = "Reverse" -> Reverse(heap, target)
     IN ret' = [r EXCEPT !.once = Elems(heap, target)]
  /\ heap' = ret'.heap
  /\ op' = AgainName[op]
  /\ UNCHANGED <<heap0, s, arg>>
  /\ UNCHANGED parVars

SliceNext ==
  \/ DoRemove
  \/ DoInsert
  \/ DoChunk
  \/ DoBatch
  \/ DoConcat
  \/ DoReplace
  \/ DoReplaceAll
  \/ DoReverse
  \/ DoShuffle
  \/ DoZip
  \/ DoUnique
  \/ DoUniqueAgain
  \/ DoPartitionBy
  \/ DoContains
  \/ DoCount
  \/ DoCountBy
  \/ DoIndex
  \/ DoFindFirst
  \/ DoReplaceIf
  \/ DoAgain

SliceInit == SeqInit /\ ParIdle

SliceSpec == SliceInit /\ [][SliceNext]_vars

Init == ParInit /\ SeqIdle

Spec == Init /\ [][Next]_vars

\* Every goroutine that can take a step is eventually scheduled.
Fairness ==
  /\ WF_vars(Panic)
  /\ WF_vars(Setup)
  /\ WF_vars(SpawnWorker)
  /\ WF_vars(SpawnProducer)
  /\ WF_vars(Send)
  /\ WF_vars(Close)
  /\ \A w \in Workers : WF_vars(Recv(w))
  /\ \A w \in Workers : WF_vars(FnReturn(w))
  /\ \A w \in Workers : WF_vars(WorkerExit(w))
  /\ WF_vars(Wait)

FairSpec == Init /\ [][Next]_vars /\ Fairness

\* ----------------------------------------------------------------- claims

Running == {w \in Workers : wpc[w] = "fn"}

\* C1: fn is invoked at most once per index at any time, and when the call
\* has returned it has been invoked exactly once for every index, so the
\* shared counter equals the sum of the elements.
C1_ExactlyOnce ==
  /\ \A k \in DOMAIN calls : calls[k] <= 1
  /\ pc = "returned" =>
       /\ \A k \in DOMAIN calls : calls[k] = 1
       /\ total = SumSeq(slice)

C1_Witness ==
  /\ pc = "returned"
  /\ parallelism = 2
  /\ Len(slice) >= 3
  /\ total = SumSeq(slice)

\* C2: when the call has returned every element has been sent and dequeued,
\* no fn invocation is running and every fn invocation has finished.
C2_Barrier ==
  pc = "returned" =>
    /\ j = Len(slice)
    /\ queue = <<>>
    /\ Running = {}
    /\ \A w \in Workers : wpc[w] \in {"none", "done"}
    /\ \A k \in DOMAIN finished : finished[k] = 1

C2_Witness ==
  /\ pc = "returned"
  /\ Len(slice) >= 2
  /\ \A k \in DOMAIN finished : finished[k] = 1
  /\ \A w \in 1..parallelism : wpc[w] = "done"

\* C3: for parallelism >= 1 the call eventually returns, with the producer
\* and every worker finished (nobody blocked forever), for every length.
C3_Terminates ==
  <>(\/ parallelism < 1
     \/ /\ pc = "returned"
        /\ ppc = "done"
        /\ \A w \in 1..parallelism : wpc[w] = "done")

\* the producer is blocked on a full queue with elements left to send
C3_Witness ==
  /\ ppc = "loop"
  /\ ProducerMore(j, Len(slice))
  /\ chanSize > 0
  /\ Len(queue) = chanSize
  /\ ~ENABLED Send

\* C4: with parallelism < 1 the call panics and nothing is started: no
\* worker, no producer, no fn invocation.
C4_PanicInvalid ==
  parallelism < 1 =>
    /\ pc \in {"start", "panicked"}
    /\ \A w \in Workers : wpc[w] = "none"
    /\ ppc = "none"
    /\ wg = 0
    /\ \A k \in DOMAIN calls : calls[k] = 0

C4_Witness ==
  /\ pc = "panicked"
  /\ parallelism = 0
  /\ Len(slice) > 0

\* C5: at most parallelism fn invocations are in progress at the same time.
C5_BoundedConcurrency ==
  Cardinality(Running) <= (IF parallelism < 0 THEN 0 ELSE parallelism)

C5_Witness ==
  /\ parallelism = 2
  /\ Cardinality(Running) = 2

\* the caller's slice contents before the call, and the returned slice's
\* contents after it
S0 == Elems(heap0, s)
Out == Elems(heap, ret.out)

\* C6: Remove(s, x) returns the elements of s that differ from x in their
\* original order together with the number of occurrences of x, so that
\* len(r) + n = len(s) and r holds no x.
C6_RemoveAll ==
  op = "Remove" =>
    /\ ~ret.panic
    /\ Out = SelectSeq(S0, LAMBDA v : v # arg.item)
    /\ ret.n = Cardinality({k \in 1..Len(S0) : S0[k] = arg.item})
    /\ Len(Out) + ret.n = Len(S0)
    /\ \A k \in 1..Len(Out) : Out[k] # arg.item

\* adjacent matches at the head, a survivor, and a match at the tail
C6_Witness ==
  /\ op = "Remove"
  /\ Len(S0) = 4
  /\ S0[1] = arg.item /\ S0[2] = arg.item /\ S0[3] # arg.item /\ S0[4] = arg.item
  /\ ret.n = 3
  /\ Out = <<S0[3]>>

\* C7: for 0 <= idx <= len(s), Insert(s, idx, x) returns r with
\* len(r) = len(s) + 1, r[idx] = x, r[i] = s[i] below idx and
\* r[i+1] = s[i] from idx on (s as it was before the call).
C7_InsertInRange ==
  (op = "Insert" /\ 0 <= arg.idx /\ arg.idx <= Len(S0)) =>
    /\ ~ret.panic
    /\ Len(Out) = Len(S0) + 1
    /\ Out[arg.idx + 1] = arg.item
    /\ \A k \in 0..(Len(S0) - 1) :
         IF k < arg.idx THEN Out[k + 1] = S0[k + 1] ELSE Out[k + 2] = S0[k + 1]

\* spare capacity, an insertion that shifts two differing elements
C7_Witness ==
  /\ op = "Insert"
  /\ s.len + 1 <= s.cap
  /\ arg.idx = 1
  /\ s.len = 3
  /\ S0[2] # S0[3]
  /\ ~ret.panic
  /\ Out = <<S0[1], arg.item, S0[2], S0[3]>>

\* C8: Insert(s, idx, x) panics and returns nothing whenever idx < 0 or
\* idx > len(s), with or without spare capacity.
C8_InsertOutOfRange ==
  (op = "Insert" /\ (arg.idx < 0 \/ arg.idx > Len(S0))) =>
    /\ ret.panic
    /\ ret.out = NilSlice

\* spare capacity and an index beyond len but within cap
C8_Witness ==
  /\ op = "Insert"
  /\ s.len + 2 <= s.cap
  /\ arg.idx = s.len + 1
  /\ ret.panic

\* C9: for size >= 1, concatenating the chunks of Chunk(s, size) in order
\* gives back s exactly.
C9_ChunkConcatRoundTrip ==
  (op = "Concat" /\ arg.size >= 1) =>
    /\ ~ret.panic
    /\ Out = S0

\* several chunks with a shorter last one, over a slice with spare capacity
C9_Witness ==
  /\ op = "Concat"
  /\ arg.size = 2
  /\ Len(S0) = 3
  /\ s.cap > s.len
  /\ Len(ret.chunks) = 2
  /\ Out = S0

\* C10: for size >= 1, Chunk(s, size) returns ceil(len(s)/size) chunks, chunk
\* number c holds s[c*size .. min((c+1)*size, len(s)) - 1], every chunk but
\* the last has size elements, the last has 1..size, none is empty.
C10_ChunkShape ==
  (op = "Chunk" /\ arg.size >= 1) =>
    LET n == Len(S0)
        k == arg.size
        cs == ret.chunks
    IN /\ ~ret.panic
       /\ Len(cs) = (n + k - 1) \div k
       /\ \A c \in 1..Len(cs) :
            /\ Elems(heap, cs[c]) =
                 SubSeq(S0, (c - 1) * k + 1, IF c * k < n THEN c * k ELSE n)
            /\ cs[c].len >= 1
            /\ cs[c].len <= k
            /\ c < Len(cs) => cs[c].len = k

\* a remainder: two full chunks and a last chunk shorter than size
C10_Witness ==
  /\ op = "Chunk"
  /\ arg.size = 2
  /\ Len(S0) = 3
  /\ Len(ret.chunks) = 2
  /\ ret.chunks[1].len = 2
  /\ ret.chunks[2].len = 1

\* C11 as stated: for size >= 1 and len(s) <= size, Chunk(s, size) returns
\* exactly one chunk holding the whole of s.  The empty slice refutes it:
\* the loop body never runs and no chunk is returned.
C11_SingleChunkOriginal ==
  (op = "Chunk" /\ arg.size >= 1 /\ Len(S0) <= arg.size) =>
    /\ ~ret.panic
    /\ Len(ret.chunks) = 1
    /\ Elems(heap, ret.chunks[1]) = S0

\* C11 amended: for size >= 1 and 1 <= len(s) <= size, Chunk(s, size)
\* returns exactly one chunk holding the whole of s; for the empty slice it
\* returns no chunk at all.
C11_SingleChunk ==
  (op = "Chunk" /\ arg.size >= 1 /\ Len(S0) <= arg.size) =>
    /\ ~ret.panic
    /\ Len(S0) >= 1 =>
         /\ Len(ret.chunks) = 1
         /\ Elems(heap, ret.chunks[1]) = S0
    /\ Len(S0) = 0 => ret.chunks = <<>>

\* a slice shorter than size, with spare capacity behind it
C11_Witness ==
  /\ op = "Chunk"
  /\ Len(S0) = 2
  /\ arg.size = 3
  /\ s.cap >= 3
  /\ Len(ret.chunks) = 1
  /\ Elems(heap, ret.chunks[1]) = S0

\* C12: Chunk and Batch panic for every size < 1 and every slice, the empty
\* one included, and return no chunk.
C12_InvalidSizePanics ==
  (op \in {"Chunk", "Batch"} /\ arg.size < 1) =>
    /\ ret.panic
    /\ ret.chunks = <<>>

\* size 0 on a non-empty slice, through Batch
C12_Witness ==
  /\ op = "Batch"
  /\ arg.size = 0
  /\ Len(S0) >= 2
  /\ ret.panic

\* the caller's slice contents after the call
Now == Elems(heap, s)

\* no array was allocated and the cells of the caller's array outside the
\* slice are as before
OnlySliceWritten ==
  /\ Len(heap) = Len(heap0)
  /\ s.arr # 0 =>
       /\ Len(heap[s.arr]) = Len(heap0[s.arr])
       /\ \A k \in 1..Len(heap0[s.arr]) :
            (k <= s.off \/ k > s.off + s.len) => heap[s.arr][k] = heap0[s.arr][k]

\* the number of positions up to k (1-based) of q that hold v
CountUpTo(q, v, k) == Cardinality({m \in 1..k : q[m] = v})

\* C13: Replace(s, old, new, n) with n >= 0 overwrites with new exactly the
\* first min(n, Count(s, old)) positions holding old and nothing else; n = 0
\* changes nothing; n = -1 and ReplaceAll replace every occurrence.
C13_Replace ==
  /\ (op = "Replace" /\ arg.n >= 0) =>
       /\ ~ret.panic
       /\ OnlySliceWritten
       /\ \A k \in 1..Len(S0) :
            Now[k] = IF S0[k] = arg.item /\ CountUpTo(S0, arg.item, k) <= arg.n
                     THEN arg.new ELSE S0[k]
       /\ arg.n = 0 => Now = S0
  /\ ((op = "Replace" /\ arg.n = 0 - 1) \/ op = "ReplaceAll") =>
       /\ ~ret.panic
       /\ OnlySliceWritten
       /\ Now = [k \in 1..Len(S0) |-> IF S0[k] = arg.item THEN arg.new ELSE S0[k]]

\* three occurrences, two of them replaced, the third kept
C13_Witness ==
  /\ op = "Replace"
  /\ arg.n = 2
  /\ arg.item # arg.new
  /\ S0 = <<arg.item, arg.new, arg.item, arg.item>>
  /\ Now = <<arg.new, arg.new, arg.new, arg.item>>

\* C14: after Reverse(s) the slice holds s'[i] = s[n-1-i] for every i, the
\* length is unchanged, and an empty or nil slice is left as it was.
C14_Reverse ==
  op = "Reverse" =>
    /\ ~ret.panic
    /\ OnlySliceWritten
    /\ Len(Now) = Len(S0)
    /\ \A k \in 1..Len(S0) : Now[k] = S0[Len(S0) + 1 - k]
    /\ Len(S0) = 0 => heap = heap0

\* an odd length whose ends differ
C14_Witness ==
  /\ op = "Reverse"
  /\ Len(S0) = 3
  /\ S0[1] # S0[3]
  /\ Now = <<S0[3], S0[2], S0[1]>>

\* C15: whatever the generator chooses, after Shuffle(s) the slice is a
\* permutation of what it held (same length, same multiset), and a slice of
\* length <= 1 is unchanged.
C15_ShufflePermutes ==
  op = "Shuffle" =>
    /\ ~ret.panic
    /\ OnlySliceWritten
    /\ Len(Now) = Len(S0)
    /\ \A v \in Vals : CountUpTo(Now, v, Len(Now)) = CountUpTo(S0, v, Len(S0))
    /\ Len(S0) <= 1 => Now = S0

\* a shuffle that moved elements
C15_Witness ==
  /\ op = "Shuffle"
  /\ Len(S0) = 3
  /\ Now # S0
  /\ Now[1] = S0[3]

\* the right argument of Zip
Right0 == Elems(heap0, arg.right)

\* C16: Zip(left, right) panics and returns nothing when the lengths differ;
\* when they are equal it returns as many pairs, the i-th being
\* (left[i], right[i]).
C16_ZipStrict ==
  op = "Zip" =>
    /\ Len(S0) # Len(Right0) => (ret.panic /\ ret.out = NilSlice /\ heap = heap0)
    /\ Len(S0) = Len(Right0) =>
         /\ ~ret.panic
         /\ Len(Out) = Len(S0)
         /\ \A k \in 1..Len(S0) : Out[k] = [First |-> S0[k], Second |-> Right0[k]]

\* a left slice shorter than the right one
C16_Witness ==
  /\ op = "Zip"
  /\ Len(S0) = 2
  /\ Len(Right0) = 3
  /\ ret.panic

\* the first position (1-based) of q whose element satisfies key
FirstPos(q, v) == CHOOSE m \in 1..Len(q) : q[m] = v /\ \A m2 \in 1..(m - 1) : q[m2] # v

\* C17: Unique(s) holds each distinct value of s exactly once, in the order
\* of the first occurrences in s.
C17_UniqueStable ==
  op = "Unique" =>
    /\ ~ret.panic
    /\ {Out[k] : k \in 1..Len(Out)} = {S0[k] : k \in 1..Len(S0)}
    /\ \A a, b \in 1..Len(Out) : a # b => Out[a] # Out[b]
    /\ \A a, b \in 1..Len(Out) :
         a < b <=> FirstPos(S0, Out[a]) < FirstPos(S0, Out[b])
    /\ s.arr # 0 => heap[s.arr] = heap0[s.arr]

\* duplicates that are not adjacent, the larger value first
C17_Witness ==
  /\ op = "Unique"
  /\ S0 = <<2, 1, 2, 1>>
  /\ Out = <<2, 1>>

\* C18: Unique(Unique(s)) equals Unique(s) element for element.
C18_UniqueIdempotent ==
  op = "UniqueAgain" =>
    /\ ~ret.panic
    /\ Out = Elems(heap, ret.chunks[1])

\* the first pass removed something, the second nothing
C18_Witness ==
  /\ op = "UniqueAgain"
  /\ Len(S0) = 3
  /\ Len(Out) = 2
  /\ Out = Elems(heap, ret.chunks[1])

\* the groups PartitionBy returned, and the key of a group
Groups == [c \in 1..Len(ret.chunks) |-> Elems(heap, ret.chunks[c])]
GroupKey(c) == arg.f[Groups[c][1]]
FirstKeyPos(q, key) ==
  CHOOSE m \in 1..Len(q) :
    arg.f[q[m]] = key /\ \A m2 \in 1..(m - 1) : arg.f[q[m2]] # key

\* C19: PartitionBy(s, f) returns one non-empty group per distinct key, the
\* groups in the order in which their keys first appear in s, each holding
\* exactly the elements of s with that key in source order; the group sizes
\* sum to len(s).
C19_PartitionBy ==
  op = "PartitionBy" =>
    /\ ~ret.panic
    /\ \A c \in 1..Len(Groups) : Len(Groups[c]) >= 1
    /\ {GroupKey(c) : c \in 1..Len(Groups)} = {arg.f[S0[k]] : k \in 1..Len(S0)}
    /\ \A c, d \in 1..Len(Groups) : c # d => GroupKey(c) # GroupKey(d)
    /\ \A c \in 1..Len(Groups) :
         Groups[c] = SelectSeq(S0, LAMBDA v : arg.f[v] = GroupKey(c))
    /\ \A c, d \in 1..Len(Groups) :
         c < d <=> FirstKeyPos(S0, GroupKey(c)) < FirstKeyPos(S0, GroupKey(d))
    /\ TotalLen(ret.chunks) = Len(S0)
    /\ Now = S0

\* two keys met alternately
C19_Witness ==
  /\ op = "PartitionBy"
  /\ S0 = <<2, 1, 2, 1>>
  /\ arg.f[1] # arg.f[2]
  /\ Groups = <<(<<2, 2>>), (<<1, 1>>)>>

NoItemMatch == \A k \in 1..Len(S0) : S0[k] # arg.item
NoPredMatch == \A k \in 1..Len(S0) : S0[k] \notin arg.pred

\* C20: when nothing matches (nil and empty slices included) Contains
\* returns false, Count and CountBy 0, Index -1, FindFirst (zero, false) and
\* Remove (s, 0); none of them panics.
C20_Sentinels ==
  /\ op \in {"Contains", "Count", "CountBy", "Index", "FindFirst", "Remove"} =>
       ~ret.panic
  /\ (op = "Contains" /\ NoItemMatch) => (ret.ok = FALSE /\ heap = heap0)
  /\ (op = "Count" /\ NoItemMatch) => (ret.n = 0 /\ heap = heap0)
  /\ (op = "CountBy" /\ NoPredMatch) => (ret.n = 0 /\ heap = heap0)
  /\ (op = "Index" /\ NoItemMatch) => (ret.n = 0 - 1 /\ heap = heap0)
  /\ (op = "FindFirst" /\ NoPredMatch) =>
       (ret.val = Zero /\ ret.ok = FALSE /\ heap = heap0)
  /\ (op = "Remove" /\ NoItemMatch) =>
       (ret.out = s /\ ret.n = 0 /\ heap = heap0)

\* a non-empty slice that does not hold the item looked for
C20_Witness ==
  /\ op = "Index"
  /\ Len(S0) = 3
  /\ NoItemMatch
  /\ ret.n = 0 - 1

\* the sequence the second application produced
Twice == IF op \in {"RemoveAgain", "InsertAgain"} THEN Out ELSE Now

\* C21 as stated: for Reverse, Remove, Insert, Replace with a bounded count,
\* ReplaceAll and ReplaceIf, applying the operation a second time with the
\* same arguments gives the same sequence as applying it once.  Reverse,
\* Insert and a bounded Replace refute it.
C21_AllIdempotentOriginal ==
  op \in {"ReverseAgain", "RemoveAgain", "InsertAgain", "ReplaceAgain",
          "ReplaceAllAgain", "ReplaceIfAgain"} =>
    /\ ~ret.panic
    /\ Twice = ret.once

\* C21 amended: Remove, ReplaceAll and ReplaceIf are idempotent.  Reverse,
\* Insert and Replace with a bounded count are not: a second Reverse
\* restores the original order, a second Insert adds a second copy of the
\* item, a second Replace with count n >= 0 replaces up to n further
\* occurrences.
C21_Idempotent ==
  /\ op \in {"RemoveAgain", "ReplaceAllAgain", "ReplaceIfAgain"} =>
       /\ ~ret.panic
       /\ Twice = ret.once
  /\ op = "ReverseAgain" => (~ret.panic /\ Twice = S0)
  /\ op = "InsertAgain" =>
       /\ ~ret.panic
       /\ Len(Twice) = Len(S0) + 2
       /\ Twice[arg.idx + 1] = arg.item
       /\ Twice[arg.idx + 2] = arg.item
  /\ (op = "ReplaceAgain" /\ arg.n >= 0) =>
       /\ ~ret.panic
       /\ \A k \in 1..Len(S0) :
            Twice[k] = IF S0[k] = arg.item /\ CountUpTo(S0, arg.item, k) <= 2 * arg.n
                       THEN arg.new ELSE S0[k]

\* a second Remove of an item whose occurrences were adjacent
C21_Witness ==
  /\ op = "RemoveAgain"
  /\ Len(S0) = 4
  /\ S0[2] = arg.item /\ S0[3] = arg.item /\ S0[1] # arg.item
  /\ Len(ret.once) = 2
  /\ Twice = ret.once

\* C22: the queue's capacity is min(parallelism * 4, len(slice)); the
\* elements enqueued and not yet dequeued never exceed it, and the elements
\* in flight (queued or inside fn) never exceed it plus parallelism.
C22_BoundedQueue ==
  pc \notin {"start", "panicked"} =>
    /\ chanSize = Min(parallelism * 4, Len(slice))
    /\ Len(queue) <= chanSize
    /\ Len(queue) + Cardinality(Running) <= chanSize + parallelism

\* the buffer is full (capacity parallelism * 4 < len(slice)), the producer
\* is blocked on the next send and every worker is inside fn
C22_Witness ==
  /\ parallelism = 1
  /\ Len(slice) = 5
  /\ chanSize = 4
  /\ Len(queue) = chanSize
  /\ Cardinality(Running) = parallelism
  /\ ppc = "loop"
  /\ j = 5

\* the indices the workers have taken from the queue so far
Dequeued == {k \in 0..(Len(slice) - 1) : calls[k + 1] >= 1}

\* what every reachable state shows of the order: the queue holds the
\* indices j - len(queue) .. j - 1 in that order with their elements, the
\* indices already dequeued are exactly the ones before them, and the queue
\* is closed only once every index has been enqueued
C23_Order ==
  /\ \A k \in 1..Len(queue) :
       queue[k] = <<j - Len(queue) + k - 1, slice[j - Len(queue) + k]>>
  /\ Dequeued = 0..(j - Len(queue) - 1)
  /\ closed => (j = Len(slice) /\ ppc = "done")

\* what every step does to the queue: a send appends the next index and
\* happens only on an open queue, the close happens after index len - 1 was
\* sent, nothing reopens or refills a closed queue, and a receive takes the
\* lowest index not yet dequeued
C23_Step ==
  /\ j' # j =>
       /\ ~closed /\ ~closed'
       /\ j' = j + 1
       /\ queue' = Append(queue, <<j, slice[j + 1]>>)
  /\ (closed' /\ ~closed) => (j = Len(slice) /\ j' = j /\ queue' = queue)
  /\ closed => (closed' /\ j' = j /\ Len(queue') <= Len(queue))
  /\ (j' = j /\ queue' # queue) =>
       /\ queue # <<>>
       /\ queue' = Tail(queue)
       /\ Head(queue)[1] = Cardinality(Dequeued)

\* C23: the single producer enqueues index 0, 1, ..., len - 1 in that order,
\* closes the queue once and only after the last element was enqueued, and
\* never sends after the close; the workers dequeue in source order, whatever
\* the order in which their fn invocations complete.
C23_ProducerOrder == [] C23_Order /\ [][C23_Step]_vars

\* the queue is closed after three or more sends, and fn has returned for
\* index 1 while the invocation for index 0 is still running
C23_Witness ==
  /\ closed
  /\ Len(slice) >= 3
  /\ j = Len(slice)
  /\ finished[2] = 1
  /\ finished[1] = 0
  /\ calls[1] = 1

\* C24: Remove allocates nothing and returns a prefix of the caller's
\* backing array: after (r, n) = Remove(s, x) the first len(r) elements seen
\* through s equal r, and s still has its old length len(r) + n.
C24_RemoveInPlace ==
  op = "Remove" =>
    /\ ~ret.panic
    /\ Len(heap) = Len(heap0)
    /\ ret.out.arr = s.arr
    /\ ret.out.off = s.off
    /\ ret.out.cap = s.cap
    /\ Len(Now) = Len(Out) + ret.n
    /\ Len(Now) = Len(S0)
    /\ \A k \in 1..Len(Out) : Now[k] = Out[k]

\* two removals from four elements: the caller's slice has changed under it
C24_Witness ==
  /\ op = "Remove"
  /\ Len(S0) = 4
  /\ ret.n = 2
  /\ S0[1] = arg.item
  /\ S0[3] = arg.item
  /\ Now # S0
  /\ Out = <<Now[1], Now[2]>>

\* C25: with cap(s) = len(s), Insert(s, idx, x) for 0 <= idx <= len(s) leaves
\* the caller's elements as they were and returns a slice over a fresh
\* array, so no later write through the result shows through s.
C25_InsertFresh ==
  (op = "Insert" /\ s.cap = s.len /\ 0 <= arg.idx /\ arg.idx <= s.len) =>
    /\ ~ret.panic
    /\ Now = S0
    /\ \A a \in 1..Len(heap0) : heap[a] = heap0[a]
    /\ ret.out.arr = Len(heap0) + 1
    /\ ret.out.arr # s.arr
    /\ \A k \in 0..(ret.out.len - 1) : \A v \in Vals :
         Elems(SetAt(heap, ret.out, k, v), s) = S0

\* a full slice of three elements, an insertion after the second one
C25_Witness ==
  /\ op = "Insert"
  /\ s.len = 3
  /\ s.cap = 3
  /\ arg.idx = 2
  /\ ~ret.panic
  /\ Out = <<S0[1], S0[2], arg.item, S0[3]>>
  /\ Now = S0

\* C26: with len(s) + 1 <= cap(s), Insert(s, idx, x) for 0 <= idx <= len(s)
\* writes into the caller's backing array: s (of length n) then equals the
\* first n elements of the result, and for idx < n it shows x at idx and its
\* former elements idx .. n-2 one place to the right.
C26_InsertAliases ==
  (op = "Insert" /\ s.len + 1 <= s.cap /\ 0 <= arg.idx /\ arg.idx <= s.len) =>
    /\ ~ret.panic
    /\ Len(heap) = Len(heap0)
    /\ ret.out.arr = s.arr
    /\ ret.out.off = s.off
    /\ \A k \in 1..s.len : Now[k] = Out[k]
    /\ \A k \in 0..(s.len - 1) :
         Now[k + 1] = IF k < arg.idx THEN S0[k + 1]
                      ELSE IF k = arg.idx THEN arg.item
                      ELSE S0[k]

\* spare capacity, insertion at the front of two differing elements: the
\* caller now sees the item and its former first element
C26_Witness ==
  /\ op = "Insert"
  /\ s.len = 2
  /\ s.cap > 2
  /\ arg.idx = 0
  /\ S0[1] # S0[2]
  /\ arg.item # S0[1]
  /\ ~ret.panic
  /\ Now = <<arg.item, S0[1]>>

\* C27: an Insert that panics (idx < 0 or idx > len(s)) has changed no
\* element of any array that existed before the call, so neither the
\* caller's slice nor its backing array up to capacity, with or without
\* spare capacity.
C27_FailedInsertNoEffect ==
  (op = "Insert" /\ ret.panic) =>
    /\ arg.idx < 0 \/ arg.idx > s.len
    /\ \A a \in 1..Len(heap0) : heap[a] = heap0[a]
    /\ Now = S0

\* a panic on the spare-capacity path with a negative index, where the
\* element after the caller's last one differs from the item
C27_Witness ==
  /\ op = "Insert"
  /\ ret.panic
  /\ arg.idx < 0
  /\ s.len = 2
  /\ s.len + 1 <= s.cap
  /\ heap0[s.arr][s.off + s.len + 1] # arg.item
  /\ heap = heap0

====
